---------------------------- MODULE Spec2Model ----------------------------
(***************************************************************************)
(* Model of the sandboxed execution service: the /run handler of           *)
(* src/app.py and run_code_in_docker of src/runner/docker_runner.py.       *)
(*                                                                         *)
(* A text (a Python str) is a sequence of one-character strings, so that   *)
(* strip, lower, the substring test, splitlines and dedent are computed    *)
(* character by character, as Python computes them.                        *)
(***************************************************************************)
EXTENDS Integers, Sequences, FiniteSets, TLC

(***************************************************************************)
(* Bounds of the model.                                                    *)
(***************************************************************************)
\* number of invocations (HTTP requests), which may overlap in time
NumInvocations == 2
\* number of vocabulary words concatenated into one captured stdout text
MaxWords == 2

(***************************************************************************)
(* Module-level configuration of the program.                              *)
(***************************************************************************)
EXEC_TIMEOUT_SECONDS == 10
MAX_CODE_SIZE == 5000

\* Python's None where a str is expected: no text is a sequence of this shape
None == <<"None">>

(***************************************************************************)
(* Python str primitives.                                                  *)
(***************************************************************************)
\* characters str.strip() removes and str.isspace() accepts
Whitespace == {" ", "\t", "\n", "\r", "\f"}
\* line boundaries of str.splitlines()
LineBoundaries == {"\n", "\r", "\f"}

UpperCase == <<"A","B","C","D","E","F","G","H","I","J","K","L","M",
               "N","O","P","Q","R","S","T","U","V","W","X","Y","Z">>
LowerCase == <<"a","b","c","d","e","f","g","h","i","j","k","l","m",
               "n","o","p","q","r","s","t","u","v","w","x","y","z">>

LowerChar(c) ==
    IF \E i \in 1..Len(UpperCase) : UpperCase[i] = c
    THEN LowerCase[CHOOSE i \in 1..Len(UpperCase) : UpperCase[i] = c]
    ELSE c

\* str.lower()
lower(s) == [i \in 1..Len(s) |-> LowerChar(s[i])]

\* the operator `sub in s` on str
Contains(sub, s) ==
    \E i \in 0..(Len(s) - Len(sub)) : SubSeq(s, i + 1, i + Len(sub)) = sub

\* str.startswith
StartsWith(s, prefix) ==
    Len(prefix) <= Len(s) /\ SubSeq(s, 1, Len(prefix)) = prefix

Min(S) == CHOOSE x \in S : \A y \in S : x <= y
Max(S) == CHOOSE x \in S : \A y \in S : x >= y

\* str.strip(): what lies between the first and the last character that is
\* no whitespace
strip(s) ==
    LET kept == {i \in 1..Len(s) : s[i] \notin Whitespace}
    IN  IF kept = {} THEN <<>> ELSE SubSeq(s, Min(kept), Max(kept))

\* str.splitlines(): the lines of s without their line boundaries; "\r\n" is
\* one boundary, and a boundary that ends s opens no further line.
RECURSIVE SplitLinesFrom(_, _)
SplitLinesFrom(s, start) ==
    IF start > Len(s) THEN <<>>
    ELSE LET ends == {i \in start..Len(s) : s[i] \in LineBoundaries}
         IN  IF ends = {} THEN <<SubSeq(s, start, Len(s))>>
             ELSE LET i == Min(ends)
                      j == IF s[i] = "\r" /\ i < Len(s) /\ s[i + 1] = "\n"
                           THEN i + 2 ELSE i + 1
                  IN  <<SubSeq(s, start, i - 1)>> \o SplitLinesFrom(s, j)

splitlines(s) == SplitLinesFrom(s, 1)

\* str.split("\n"): the fields between newlines, empty ones kept
RECURSIVE SplitNewlineFrom(_, _)
SplitNewlineFrom(s, start) ==
    LET ends == {i \in start..Len(s) : s[i] = "\n"}
    IN  IF ends = {} THEN <<SubSeq(s, start, Len(s))>>
        ELSE <<SubSeq(s, start, Min(ends) - 1)>>
             \o SplitNewlineFrom(s, Min(ends) + 1)

SplitNewline(s) == SplitNewlineFrom(s, 1)

\* "\n".join(lines)
RECURSIVE JoinNewline(_)
JoinNewline(lines) ==
    IF lines = <<>> THEN <<>>
    ELSE IF Len(lines) = 1 THEN lines[1]
    ELSE lines[1] \o <<"\n">> \o JoinNewline(Tail(lines))

\* str(n) for an integer n >= 0, as an f-string formats it
Digits == <<"0","1","2","3","4","5","6","7","8","9">>

RECURSIVE IntToStr(_)
IntToStr(n) ==
    IF n < 10 THEN <<Digits[n + 1]>>
    ELSE IntToStr(n \div 10) \o <<Digits[(n % 10) + 1]>>

RECURSIVE Concat(_)
Concat(seqs) ==
    IF seqs = <<>> THEN <<>> ELSE Head(seqs) \o Concat(Tail(seqs))

(***************************************************************************)
(* textwrap.dedent, called on the submitted source.                        *)
(***************************************************************************)
Indentation == {" ", "\t"}

\* a line of spaces and tabs only: _whitespace_only_re empties it
WhitespaceOnly(line) == \A i \in 1..Len(line) : line[i] \in Indentation

\* the leading run of spaces and tabs of a line
LeadingWhitespace(line) ==
    LET others == {i \in 1..Len(line) : line[i] \notin Indentation}
    IN  IF others = {} THEN line ELSE SubSeq(line, 1, Min(others) - 1)

CommonPrefix(a, b) ==
    LET n == IF Len(a) <= Len(b) THEN Len(a) ELSE Len(b)
        differ == {i \in 1..n : a[i] # b[i]}
    IN  IF differ = {} THEN SubSeq(a, 1, n) ELSE SubSeq(a, 1, Min(differ) - 1)

\* the margin dedent removes: the longest whitespace prefix common to the
\* lines that hold something else than whitespace; None when there is no
\* such line
RECURSIVE Margin(_, _)
Margin(lines, margin) ==
    IF lines = <<>> THEN margin
    ELSE IF WhitespaceOnly(Head(lines)) THEN Margin(Tail(lines), margin)
    ELSE LET indent == LeadingWhitespace(Head(lines))
         IN  Margin(Tail(lines),
                    IF margin = None THEN indent
                    ELSE CommonPrefix(margin, indent))

dedent(text) ==
    LET raw    == SplitNewline(text)
        lines  == [i \in 1..Len(raw) |->
                     IF WhitespaceOnly(raw[i]) THEN <<>> ELSE raw[i]]
        margin == Margin(lines, None)
        cut    == [i \in 1..Len(lines) |->
                     IF margin # None /\ margin # <<>>
                        /\ StartsWith(lines[i], margin)
                     THEN SubSeq(lines[i], Len(margin) + 1, Len(lines[i]))
                     ELSE lines[i]]
    IN  JoinNewline(cut)

(***************************************************************************)
(* The fixed texts of the program.                                         *)
(***************************************************************************)
\* docker_runner.py line 21
DockerMissingMessage ==
    <<"D","o","c","k","e","r"," ","i","s"," ","n","o","t"," ","i","n","s",
      "t","a","l","l","e","d"," ","o","r"," ","n","o","t"," ","a","v","a",
      "i","l","a","b","l","e"," ","i","n"," ","P","A","T","H",".">>

\* docker_runner.py line 46: f"Execution timed out after {EXEC_TIMEOUT_SECONDS} seconds."
TimeoutMessage ==
    Concat(<< <<"E","x","e","c","u","t","i","o","n"," ","t","i","m","e","d",
                " ","o","u","t"," ","a","f","t","e","r"," ">>,
              IntToStr(EXEC_TIMEOUT_SECONDS),
              <<" ","s","e","c","o","n","d","s",".">> >>)

\* docker_runner.py line 48: f"Internal error: {e}"
InternalErrorMessage(e) ==
    <<"I","n","t","e","r","n","a","l"," ","e","r","r","o","r",":"," ">> \o e

\* docker_runner.py line 57
OomMessage ==
    <<"E","x","e","c","u","t","i","o","n"," ","f","a","i","l","e","d",":",
      " ","c","o","n","t","a","i","n","e","r"," ","w","a","s"," ","k","i",
      "l","l","e","d"," ","d","u","e"," ","t","o"," ","e","x","c","e","s",
      "s","i","v","e"," ","m","e","m","o","r","y"," ","u","s","a","g","e",
      ".">>

\* docker_runner.py line 56
Killed == <<"k","i","l","l","e","d">>
OutOfMemory == <<"o","u","t"," ","o","f"," ","m","e","m","o","r","y">>

\* app.py line 13
Traceback == <<"T","r","a","c","e","b","a","c","k">>

(***************************************************************************)
(* app.py, clean_message.                                                  *)
(***************************************************************************)
\* a slip of clean_message: the first line is kept, not the last
clean_message_first_line(msg) ==
    IF Contains(Traceback, msg)
    THEN LET lines == splitlines(msg) IN lines[1]
    ELSE msg

clean_message(msg) ==
    IF Contains(Traceback, msg)
    THEN LET lines == splitlines(msg) IN lines[Len(lines)]
    ELSE msg

(***************************************************************************)
(* docker_runner.py lines 50-61: the pair run_code_in_docker returns for a *)
(* completed subprocess.run, proc = [stdout, stderr, returncode].          *)
(***************************************************************************)
\* a slip of lines 55-56: the heuristic is applied without lower()
ResultOfCaseSensitive(proc) ==
    LET stdout   == proc.stdout
        stderr   == proc.stderr
        combined == strip(Concat(<<stdout, <<"\n">>, stderr>>))
    IN  IF proc.returncode # 0
        THEN IF Contains(Killed, combined) \/ Contains(OutOfMemory, combined)
             THEN <<OomMessage, proc.returncode>>
             ELSE <<combined, proc.returncode>>
        ELSE <<strip(stdout), proc.returncode>>

\* a slip of line 61: the combined text is returned on success too
ResultOfCombinedOnSuccess(proc) ==
    LET stdout   == proc.stdout
        stderr   == proc.stderr
        combined == strip(Concat(<<stdout, <<"\n">>, stderr>>))
        low      == lower(combined)
    IN  IF proc.returncode # 0
        THEN IF Contains(Killed, low) \/ Contains(OutOfMemory, low)
             THEN <<OomMessage, proc.returncode>>
             ELSE <<combined, proc.returncode>>
        ELSE <<combined, proc.returncode>>

ResultOf(proc) ==
    LET stdout   == proc.stdout
        stderr   == proc.stderr
        combined == strip(Concat(<<stdout, <<"\n">>, stderr>>))
        low      == lower(combined)
    IN  IF proc.returncode # 0
        THEN IF Contains(Killed, low) \/ Contains(OutOfMemory, low)
             THEN <<OomMessage, proc.returncode>>
             ELSE <<combined, proc.returncode>>
        ELSE <<strip(stdout), proc.returncode>>

(***************************************************************************)
(* Inputs.                                                                 *)
(***************************************************************************)
Invocations == 1..NumInvocations

\* names tempfile.mkdtemp may give a staging directory; it never gives the
\* name of a directory that exists, so there is one per invocation at least
DirNames == 1..NumInvocations

\* a lone surrogate code point, which a JSON string "\ud800" decodes to and
\* which the utf-8 codec refuses to encode
Surrogate == "U+D800"

\* str.encode("utf-8") succeeds
Encodable(text) == \A i \in 1..Len(text) : text[i] # Surrogate

CodeHi == <<"p","r","i","n","t","(","\"","h","i","\"",")">>
CodeIndented ==
    <<" "," "," "," ","x"," ","="," ","1","\n"," "," "," "," ","p","r","i",
      "n","t","(","x",")","\n">>
CodeSurrogate == <<"x"," ","="," ","\"",Surrogate,"\"">>

Codes == {CodeHi, CodeIndented, CodeSurrogate}

\* the JSON body of a request: no "code" field, or a source text
Missing == <<"Missing">>
Requests == {Missing} \cup Codes

\* what a guest may print: up to MaxWords words of the vocabulary
Vocabulary ==
    { <<"h","i">>, <<"h","i","\n">>, <<" ">>, Traceback,
      <<"K","i","l","l","e","d">>, OutOfMemory }

RECURSIVE WordsUpTo(_)
WordsUpTo(n) ==
    IF n = 0 THEN { <<>> }
    ELSE LET shorter == WordsUpTo(n - 1)
         IN  shorter \cup { w \o t : w \in Vocabulary, t \in shorter }

StdoutTexts == WordsUpTo(MaxWords)

\* the trace of an unhandled ZeroDivisionError, as the interpreter prints it
TraceText ==
    <<"T","r","a","c","e","b","a","c","k"," ","(","m","o","s","t"," ","r",
      "e","c","e","n","t"," ","c","a","l","l"," ","l","a","s","t",")",":",
      "\n"," "," ","F","i","l","e"," ","\"","/","a","p","p","/","s","c","r",
      "i","p","t",".","p","y","\"",","," ","l","i","n","e"," ","1",","," ",
      "i","n"," ","<","m","o","d","u","l","e",">","\n","Z","e","r","o","D",
      "i","v","i","s","i","o","n","E","r","r","o","r",":"," ","d","i","v",
      "i","s","i","o","n"," ","b","y"," ","z","e","r","o","\n">>

StderrTexts ==
    { <<>>, TraceText, <<"K","i","l","l","e","d","\n">>,
      <<"D","e","p","r","e","c","a","t","i","o","n","W","a","r","n","i","n",
        "g",":"," ","o","l","d","\n">> }

\* Popen.returncode: the exit status of `docker run` (that of the guest, 137
\* after an OOM kill), or -N when signal N killed the docker client
SIGKILL == 9
SIGINT == 2
ReturnCodes == {0 - SIGKILL, 0 - SIGINT, 0, 1, 137}

\* the smaller input sets of the specification of overlapping invocations
FewRequests == {CodeHi, CodeIndented}
FewStdoutTexts == { <<"h","i","\n">> }
FewStderrTexts == { <<>> }
FewReturnCodes == {0, 1}

\* str(e) of an exception subprocess.run raises
NoDockerDescription ==
    <<"[","E","r","r","n","o"," ","2","]"," ","N","o"," ","s","u","c","h",
      " ","f","i","l","e"," ","o","r"," ","d","i","r","e","c","t","o","r",
      "y",":"," ","'","d","o","c","k","e","r","'">>
DecodeDescription ==
    <<"'","u","t","f","-","8","'"," ","c","o","d","e","c"," ","c","a","n",
      "'","t"," ","d","e","c","o","d","e"," ","b","y","t","e"," ","0","x",
      "f","f"," ","i","n"," ","p","o","s","i","t","i","o","n"," ","0",":",
      " ","i","n","v","a","l","i","d"," ","s","t","a","r","t"," ","b","y",
      "t","e">>

(***************************************************************************)
(* State.                                                                  *)
(***************************************************************************)
VARIABLES
    dockerInPath,   \* shutil.which("docker") is not None
    fs,             \* the temporary directories: [exists, script], by name
    pc,             \* where each invocation is
    request,        \* data["code"] of the request, None before it arrives
    code,           \* the local `code` of run_code_in_docker, after dedent
    available,      \* what _docker_available() returned to the invocation
    tmpdir,         \* the local `tmpdir`, inside the with statement
    client,         \* the `docker run` child process of subprocess.run
    container,      \* the container the docker daemon runs for the invocation
    seen,           \* the /app/script.py the guest interpreter read
    proc,           \* what subprocess.run captured
    result,         \* the pair run_code_in_docker returns
    exc,            \* the exception leaving run_code_in_docker, if any
    branch,         \* which return statement produced result
    created,        \* how many directories the invocation has made
    removed,        \* how many directories the invocation has removed
    response        \* the JSON response of /run

vars == <<dockerInPath, fs, pc, request, code, available, tmpdir, client,
          container, seen, proc, result, exc, branch, created, removed,
          response>>

locals == <<request, code, available, tmpdir, client, container, seen, proc,
            result, exc, branch, created, removed, response>>

Output(r) == r[1]
ExitCode(r) == r[2]

\* no directory of that name; a directory without script.py; one with it
NoDirectory == [exists |-> FALSE, script |-> None]
EmptyDirectory == [exists |-> TRUE, script |-> None]
DirectoryWith(text) == [exists |-> TRUE, script |-> text]

\* tmpdir outside the with statement
NoDir == 0
\* proc before subprocess.run has returned or raised
NoProc == [stdout |-> None, stderr |-> None, returncode |-> 0]
\* result before a return statement has run
NoResult == <<>>
\* response before the handler has answered
NoResponse == [status |-> 0, output |-> None, exit_code |-> 0]
\* the 400 response of a rejected request
BadRequest == [status |-> 400, output |-> None, exit_code |-> 0]

Init ==
    /\ dockerInPath \in BOOLEAN
    /\ fs = [d \in DirNames |-> NoDirectory]
    /\ pc = [p \in Invocations |-> "idle"]
    /\ request = [p \in Invocations |-> None]
    /\ code = [p \in Invocations |-> None]
    /\ available = [p \in Invocations |-> "unknown"]
    /\ tmpdir = [p \in Invocations |-> NoDir]
    /\ client = [p \in Invocations |-> "none"]
    /\ container = [p \in Invocations |-> "none"]
    /\ seen = [p \in Invocations |-> None]
    /\ proc = [p \in Invocations |-> NoProc]
    /\ result = [p \in Invocations |-> NoResult]
    /\ exc = [p \in Invocations |-> "none"]
    /\ branch = [p \in Invocations |-> "none"]
    /\ created = [p \in Invocations |-> 0]
    /\ removed = [p \in Invocations |-> 0]
    /\ response = [p \in Invocations |-> NoResponse]

(***************************************************************************)
(* The environment: the docker binary leaves or enters PATH.               *)
(***************************************************************************)
DockerRemoved ==
    /\ dockerInPath
    /\ dockerInPath' = FALSE
    /\ UNCHANGED <<fs, pc, locals>>

DockerInstalled ==
    /\ ~dockerInPath
    /\ dockerInPath' = TRUE
    /\ UNCHANGED <<fs, pc, locals>>

(***************************************************************************)
(* A slip of lines 20-21: the runtime is looked up and staging goes on     *)
(* whatever the answer.                                                    *)
(***************************************************************************)
run_code_without_return(p, requests) ==
    /\ pc[p] = "idle"
    /\ \E data \in requests :
        /\ request' = [request EXCEPT ![p] = data]
        /\ IF data = Missing \/ Len(data) > MAX_CODE_SIZE
           THEN /\ response' = [response EXCEPT ![p] = BadRequest]
                /\ pc' = [pc EXCEPT ![p] = "done"]
                /\ UNCHANGED <<code, available>>
           ELSE /\ code' = [code EXCEPT ![p] = dedent(data)]
                /\ available' = [available EXCEPT
                                   ![p] = IF dockerInPath THEN "yes" ELSE "no"]
                /\ pc' = [pc EXCEPT ![p] = "mkdtemp"]
                /\ UNCHANGED response
    /\ UNCHANGED <<dockerInPath, fs, tmpdir, client, container, seen, proc,
                   result, exc, branch, created, removed>>

(***************************************************************************)
(* app.py run_code, lines 26-41, and run_code_in_docker, lines 17-21: the  *)
(* request is validated, the core is entered, the source is dedented and   *)
(* the runtime is looked up.                                               *)
(***************************************************************************)
run_code(p, requests) ==
    /\ pc[p] = "idle"
    /\ \E data \in requests :
        /\ request' = [request EXCEPT ![p] = data]
        /\ IF data = Missing \/ Len(data) > MAX_CODE_SIZE
           THEN /\ response' = [response EXCEPT ![p] = BadRequest]
                /\ pc' = [pc EXCEPT ![p] = "done"]
                /\ UNCHANGED <<code, available, result, branch>>
           ELSE /\ code' = [code EXCEPT ![p] = dedent(data)]
                /\ available' = [available EXCEPT
                                   ![p] = IF dockerInPath THEN "yes" ELSE "no"]
                /\ IF dockerInPath
                   THEN /\ pc' = [pc EXCEPT ![p] = "mkdtemp"]
                        /\ UNCHANGED <<result, branch>>
                   ELSE /\ result' = [result EXCEPT
                                        ![p] = <<DockerMissingMessage, 0 - 1>>]
                        /\ branch' = [branch EXCEPT ![p] = "unavailable"]
                        /\ pc' = [pc EXCEPT ![p] = "returned"]
                /\ UNCHANGED response
    /\ UNCHANGED <<dockerInPath, fs, tmpdir, client, container, seen, proc,
                   exc, created, removed>>

(***************************************************************************)
(* docker_runner.py line 23: TemporaryDirectory() makes a directory under  *)
(* a name no existing directory has.                                       *)
(***************************************************************************)
\* a slip of line 23: a fixed or guessed name, which may be in use
AnyName == DirNames

FreeNames == {d \in DirNames : ~fs[d].exists}

MakeTempDir(p) ==
    /\ pc[p] = "mkdtemp"
    /\ \E d \in FreeNames :
        /\ fs' = [fs EXCEPT ![d] = EmptyDirectory]
        /\ tmpdir' = [tmpdir EXCEPT ![p] = d]
    /\ created' = [created EXCEPT ![p] = @ + 1]
    /\ pc' = [pc EXCEPT ![p] = "write"]
    /\ UNCHANGED <<dockerInPath, request, code, available, client, container,
                   seen, proc, result, exc, branch, removed, response>>

(***************************************************************************)
(* docker_runner.py lines 24-27: script.py is opened and the source is     *)
(* written, utf-8 encoded; the write raises UnicodeEncodeError for a       *)
(* source the codec cannot encode, and the exception, which no handler     *)
(* catches, leaves through the with statement of line 23.                  *)
(***************************************************************************)
WriteScript(p) ==
    /\ pc[p] = "write"
    /\ IF Encodable(code[p])
       THEN /\ fs' = [fs EXCEPT ![tmpdir[p]] = DirectoryWith(code[p])]
            /\ pc' = [pc EXCEPT ![p] = "launch"]
            /\ UNCHANGED exc
       ELSE /\ fs' = [fs EXCEPT ![tmpdir[p]] = DirectoryWith(<<>>)]
            /\ exc' = [exc EXCEPT ![p] = "UnicodeEncodeError"]
            /\ pc' = [pc EXCEPT ![p] = "cleanup"]
    /\ UNCHANGED <<dockerInPath, request, code, available, tmpdir, client,
                   container, seen, proc, result, branch, created, removed,
                   response>>

(***************************************************************************)
(* docker_runner.py lines 38-48: subprocess.run starts `docker run`; when  *)
(* the binary is gone Popen raises FileNotFoundError, which line 47        *)
(* catches.                                                                *)
(***************************************************************************)
Launch(p) ==
    /\ pc[p] = "launch"
    /\ IF dockerInPath
       THEN /\ client' = [client EXCEPT ![p] = "running"]
            /\ pc' = [pc EXCEPT ![p] = "waiting"]
            /\ UNCHANGED <<result, branch>>
       ELSE /\ result' = [result EXCEPT
                ![p] = <<InternalErrorMessage(NoDockerDescription), 0 - 1>>]
            /\ branch' = [branch EXCEPT ![p] = "error"]
            /\ pc' = [pc EXCEPT ![p] = "cleanup"]
            /\ UNCHANGED client
    /\ UNCHANGED <<dockerInPath, fs, request, code, available, tmpdir,
                   container, seen, proc, exc, created, removed, response>>

(***************************************************************************)
(* docker_runner.py lines 29-36: what `docker run --rm -v tmpdir:/app:ro   *)
(* IMAGE python /app/script.py` asks of the daemon: the container starts   *)
(* with the directory mounted and the interpreter reads the script.        *)
(***************************************************************************)
ContainerStart(p) ==
    /\ pc[p] = "waiting"
    /\ client[p] = "running"
    /\ container[p] = "none"
    /\ container' = [container EXCEPT ![p] = "running"]
    /\ seen' = [seen EXCEPT ![p] = fs[tmpdir[p]].script]
    /\ UNCHANGED <<dockerInPath, fs, pc, request, code, available, tmpdir,
                   client, proc, result, exc, branch, created, removed,
                   response>>

(***************************************************************************)
(* docker_runner.py lines 39-44 and 50-61: subprocess.run returns.  With   *)
(* returncode >= 0 the guest has run and --rm removes the container; with  *)
(* returncode -N signal N killed the docker client, which leaves the       *)
(* container to the daemon.                                                *)
(***************************************************************************)
ProcExits(p, stdouts, stderrs, returncodes) ==
    /\ pc[p] = "waiting"
    /\ client[p] = "running"
    /\ \E out \in stdouts, err \in stderrs, rc \in returncodes :
        /\ rc >= 0 => container[p] = "running"
        /\ container' = [container EXCEPT
                           ![p] = IF rc >= 0 THEN "removed" ELSE @]
        /\ proc' = [proc EXCEPT
                      ![p] = [stdout |-> out, stderr |-> err,
                              returncode |-> rc]]
        /\ result' = [result EXCEPT ![p] = ResultOf(proc'[p])]
    /\ client' = [client EXCEPT ![p] = "exited"]
    /\ branch' = [branch EXCEPT ![p] = "completed"]
    /\ pc' = [pc EXCEPT ![p] = "cleanup"]
    /\ UNCHANGED <<dockerInPath, fs, request, code, available, tmpdir, seen,
                   exc, created, removed, response>>

(***************************************************************************)
(* A slip of lines 45-46: the output captured before the timeout is        *)
(* returned.                                                               *)
(***************************************************************************)
TimeoutExpiredKeepsOutput(p, stdouts, stderrs) ==
    /\ pc[p] = "waiting"
    /\ client[p] = "running"
    /\ client' = [client EXCEPT ![p] = "killed"]
    /\ \E out \in stdouts, err \in stderrs :
        /\ proc' = [proc EXCEPT
                      ![p] = [stdout |-> out, stderr |-> err,
                              returncode |-> 0 - SIGKILL]]
        /\ result' = [result EXCEPT
                        ![p] = <<strip(out) \o TimeoutMessage, 0 - 2>>]
    /\ branch' = [branch EXCEPT ![p] = "timeout"]
    /\ pc' = [pc EXCEPT ![p] = "cleanup"]
    /\ UNCHANGED <<dockerInPath, fs, request, code, available, tmpdir,
                   container, seen, exc, created, removed, response>>

(***************************************************************************)
(* docker_runner.py lines 39-46: the timeout of subprocess.run expires.    *)
(* subprocess.run kills its child, the docker client, and raises           *)
(* TimeoutExpired with the output captured so far, which line 45 drops.    *)
(* proc holds what the killed child leaves: its output and returncode.     *)
(***************************************************************************)
TimeoutExpired(p, stdouts, stderrs) ==
    /\ pc[p] = "waiting"
    /\ client[p] = "running"
    /\ client' = [client EXCEPT ![p] = "killed"]
    /\ \E out \in stdouts, err \in stderrs :
        proc' = [proc EXCEPT
                   ![p] = [stdout |-> out, stderr |-> err,
                           returncode |-> 0 - SIGKILL]]
    /\ result' = [result EXCEPT ![p] = <<TimeoutMessage, 0 - 2>>]
    /\ branch' = [branch EXCEPT ![p] = "timeout"]
    /\ pc' = [pc EXCEPT ![p] = "cleanup"]
    /\ UNCHANGED <<dockerInPath, fs, request, code, available, tmpdir,
                   container, seen, exc, created, removed, response>>

(***************************************************************************)
(* docker_runner.py lines 39-48: communicating with the child raises, as   *)
(* decoding guest output that is not utf-8 does; subprocess.run kills the  *)
(* child and line 47 catches the exception.                                *)
(***************************************************************************)
CommunicateRaises(p) ==
    /\ pc[p] = "waiting"
    /\ client[p] = "running"
    /\ container[p] = "running"
    /\ client' = [client EXCEPT ![p] = "killed"]
    /\ result' = [result EXCEPT
                    ![p] = <<InternalErrorMessage(DecodeDescription), 0 - 1>>]
    /\ branch' = [branch EXCEPT ![p] = "error"]
    /\ pc' = [pc EXCEPT ![p] = "cleanup"]
    /\ UNCHANGED <<dockerInPath, fs, request, code, available, tmpdir,
                   container, seen, proc, exc, created, removed, response>>

(***************************************************************************)
(* The guest of a container whose docker client is gone ends by itself,    *)
(* and the daemon removes the container (--rm).                            *)
(***************************************************************************)
ContainerExits(p) ==
    /\ client[p] \in {"killed", "exited"}
    /\ container[p] = "running"
    /\ container' = [container EXCEPT ![p] = "removed"]
    /\ UNCHANGED <<dockerInPath, fs, pc, request, code, available, tmpdir,
                   client, seen, proc, result, exc, branch, created, removed,
                   response>>

(***************************************************************************)
(* A slip of line 23: the directory is removed by hand after the run, on   *)
(* the paths that reach line 50 only.                                      *)
(***************************************************************************)
CleanupAfterCompletedRun(p) ==
    /\ pc[p] = "cleanup"
    /\ IF branch[p] = "completed"
       THEN /\ fs' = [fs EXCEPT ![tmpdir[p]] = NoDirectory]
            /\ removed' = [removed EXCEPT ![p] = @ + 1]
       ELSE UNCHANGED <<fs, removed>>
    /\ tmpdir' = [tmpdir EXCEPT ![p] = NoDir]
    /\ pc' = [pc EXCEPT ![p] = IF exc[p] = "none" THEN "returned" ELSE "raised"]
    /\ UNCHANGED <<dockerInPath, request, code, available, client, container,
                   seen, proc, result, exc, branch, created, response>>

(***************************************************************************)
(* docker_runner.py line 23: leaving the with statement, by a return or by *)
(* an exception, removes the directory and what it holds; the function is  *)
(* left and its local tmpdir with it.                                      *)
(***************************************************************************)
Cleanup(p) ==
    /\ pc[p] = "cleanup"
    /\ fs' = [fs EXCEPT ![tmpdir[p]] = NoDirectory]
    /\ removed' = [removed EXCEPT ![p] = @ + 1]
    /\ tmpdir' = [tmpdir EXCEPT ![p] = NoDir]
    /\ pc' = [pc EXCEPT ![p] = IF exc[p] = "none" THEN "returned" ELSE "raised"]
    /\ UNCHANGED <<dockerInPath, request, code, available, client, container,
                   seen, proc, result, exc, branch, created, response>>

(***************************************************************************)
(* app.py lines 41-49: the pair comes back, the message is shortened and   *)
(* the response is built.                                                  *)
(***************************************************************************)
Respond(p) ==
    /\ pc[p] = "returned"
    /\ response' = [response EXCEPT
                      ![p] = [status |-> 200,
                              output |-> clean_message(Output(result[p])),
                              exit_code |-> ExitCode(result[p])]]
    /\ pc' = [pc EXCEPT ![p] = "done"]
    /\ UNCHANGED <<dockerInPath, fs, request, code, available, tmpdir, client,
                   container, seen, proc, result, exc, branch, created,
                   removed>>

(***************************************************************************)
(* Specifications.                                                         *)
(***************************************************************************)
Step(p, reqs, outs, errs, rcs) ==
    \/ run_code(p, reqs)
    \/ MakeTempDir(p)
    \/ WriteScript(p)
    \/ Launch(p)
    \/ ContainerStart(p)
    \/ ProcExits(p, outs, errs, rcs)
    \/ TimeoutExpired(p, outs, errs)
    \/ CommunicateRaises(p)
    \/ ContainerExits(p)
    \/ Cleanup(p)
    \/ Respond(p)

\* one invocation, every request and every captured output, while the docker
\* binary comes and goes
NextOne ==
    \/ DockerRemoved
    \/ DockerInstalled
    \/ Step(1, Requests, StdoutTexts, StderrTexts, ReturnCodes)

SpecOne == Init /\ [][NextOne]_vars

\* overlapping invocations, with few requests and captured outputs
Next ==
    \E p \in Invocations :
        Step(p, FewRequests, FewStdoutTexts, FewStderrTexts, FewReturnCodes)

Spec == Init /\ [][Next]_vars

(***************************************************************************)
(* Notions the properties are stated with.  They are written from what the *)
(* words mean, not from the operators above.                               *)
(***************************************************************************)
\* the word w occurs in the text s
Occurs(w, s) ==
    \E i \in 1..(Len(s) - Len(w) + 1) :
        \A j \in 1..Len(w) : s[i + j - 1] = w[j]

\* c is the letter l, in either case (l is a lower-case letter or no letter)
SameLetter(c, l) ==
    c = l \/ \E k \in 1..Len(LowerCase) : LowerCase[k] = l /\ UpperCase[k] = c

\* the lower-case word w occurs in the text s, case ignored
OccursIgnoringCase(w, s) ==
    \E i \in 1..(Len(s) - Len(w) + 1) :
        \A j \in 1..Len(w) : SameLetter(s[i + j - 1], w[j])

\* the text x without its leading and its trailing whitespace
TrimOf(x) ==
    LET lead  == CHOOSE i \in 0..Len(x) :
                    /\ \A k \in 1..i : x[k] \in Whitespace
                    /\ i < Len(x) => x[i + 1] \notin Whitespace
        trail == CHOOSE j \in lead..Len(x) :
                    /\ \A k \in (j + 1)..Len(x) : x[k] \in Whitespace
                    /\ j > lead => x[j] \notin Whitespace
    IN  SubSeq(x, lead + 1, trail)

\* the last line of the text m: what follows the last line boundary of m,
\* a boundary that ends m set aside
FinalLine(m) ==
    LET n      == Len(m)
        body   == IF n >= 2 /\ m[n - 1] = "\r" /\ m[n] = "\n"
                  THEN SubSeq(m, 1, n - 2)
                  ELSE IF n >= 1 /\ m[n] \in LineBoundaries
                       THEN SubSeq(m, 1, n - 1)
                       ELSE m
        breaks == {i \in 1..Len(body) : body[i] \in LineBoundaries}
    IN  IF breaks = {} THEN body
        ELSE SubSeq(body, Max(breaks) + 1, Len(body))

\* the shortening the /run boundary is to apply to a message
Shortened(m) == IF Occurs(Traceback, m) THEN FinalLine(m) ELSE m

\* the memory heuristic matches the text
LooksKilled(text) ==
    \/ OccursIgnoringCase(<<"k","i","l","l","e","d">>, text)
    \/ OccursIgnoringCase(<<"o","u","t"," ","o","f"," ","m","e","m","o","r",
                            "y">>, text)

TimedOutAfter10Seconds ==
    <<"E","x","e","c","u","t","i","o","n"," ","t","i","m","e","d"," ","o",
      "u","t"," ","a","f","t","e","r"," ","1","0"," ","s","e","c","o","n",
      "d","s",".">>

DockerNotInstalledText ==
    <<"D","o","c","k","e","r"," ","i","s"," ","n","o","t"," ","i","n","s",
      "t","a","l","l","e","d"," ","o","r"," ","n","o","t"," ","a","v","a",
      "i","l","a","b","l","e"," ","i","n"," ","P","A","T","H",".">>

KilledForMemoryText ==
    <<"E","x","e","c","u","t","i","o","n"," ","f","a","i","l","e","d",":",
      " ","c","o","n","t","a","i","n","e","r"," ","w","a","s"," ","k","i",
      "l","l","e","d"," ","d","u","e"," ","t","o"," ","e","x","c","e","s",
      "s","i","v","e"," ","m","e","m","o","r","y"," ","u","s","a","g","e",
      ".">>

ZeroDivisionLine ==
    <<"Z","e","r","o","D","i","v","i","s","i","o","n","E","r","r","o","r",
      ":"," ","d","i","v","i","s","i","o","n"," ","b","y"," ","z","e","r",
      "o">>

\* the invocation has left run_code_in_docker, by a return or an exception
Left(p) == pc[p] \in {"returned", "raised", "done"}
\* the invocation has returned a pair
Returned(p) == pc[p] \in {"returned", "done"}
\* the response of /run has been sent with the pair in it
Answered(p) == pc[p] = "done" /\ response[p].status = 200
\* subprocess.run returned: the sandbox run completed without a timeout
Completed(p) == branch[p] = "completed"

(***************************************************************************)
(* C1.  No invocation of run_code_in_docker ends by propagating an         *)
(* exception to its caller: every failure after entry is returned as a     *)
(* pair (output, exit_code).                                               *)
(* The code does not do this: see C1_Escapes.                              *)
(***************************************************************************)
C1_NoExceptionEscapes ==
    \A p \in Invocations : pc[p] # "raised" /\ exc[p] = "none"

\* the state the claim rules out: the UnicodeEncodeError of the write has
\* left the function, after the directory was removed
C1_Escapes ==
    \E p \in Invocations :
        /\ pc[p] = "raised"
        /\ exc[p] = "UnicodeEncodeError"
        /\ result[p] = NoResult

(***************************************************************************)
(* C2.  A staging directory an invocation has made is gone, with its       *)
(* script.py, when the invocation ends, whichever way it ends; it is       *)
(* removed exactly once; and when no invocation is under way no staging    *)
(* directory exists.                                                       *)
(***************************************************************************)
C2_StagingRemovedExactlyOnce ==
    /\ \A p \in Invocations :
        /\ created[p] <= 1
        /\ removed[p] <= created[p]
        /\ Left(p) => removed[p] = created[p] /\ tmpdir[p] = NoDir
    /\ (\A p \in Invocations : pc[p] = "idle" \/ Left(p))
          => \A d \in DirNames : fs[d] = NoDirectory

\* an invocation that timed out has ended, with its directory made and gone
C2_RemovedAfterTimeout ==
    \E p \in Invocations :
        /\ pc[p] = "returned"
        /\ branch[p] = "timeout"
        /\ created[p] = 1
        /\ removed[p] = 1
        /\ \A d \in DirNames : ~fs[d].exists

(***************************************************************************)
(* C3.  Once run_code_in_docker has returned the timeout result, no        *)
(* container started by that invocation is running.                        *)
(* The code does not do this: the timeout kills the docker client only.    *)
(***************************************************************************)
C3_TimeoutStopsSandbox ==
    \A p \in Invocations :
        Returned(p) /\ branch[p] = "timeout" => container[p] # "running"

(***************************************************************************)
(* C4.  When the run exceeds the deadline, whatever output was captured,   *)
(* run_code_in_docker returns "Execution timed out after 10 seconds." with *)
(* -2, and /run answers with that same text and -2.                        *)
(***************************************************************************)
C4_TimeoutResult ==
    \A p \in Invocations :
        branch[p] = "timeout" =>
            /\ result[p] = <<TimedOutAfter10Seconds, 0 - 2>>
            /\ pc[p] = "done" =>
                  response[p] = [status |-> 200,
                                 output |-> TimedOutAfter10Seconds,
                                 exit_code |-> 0 - 2]

\* /run has answered a run that timed out after the guest had printed
C4_TimedOutWithOutput ==
    \E p \in Invocations :
        /\ Answered(p)
        /\ branch[p] = "timeout"
        /\ proc[p].stdout # <<>>
        /\ container[p] # "none"

(***************************************************************************)
(* C5.  When docker is not in PATH at the lookup, run_code_in_docker       *)
(* returns ("Docker is not installed or not available in PATH.", -1), and  *)
(* the invocation makes no directory, writes no file and starts no         *)
(* process or container.                                                   *)
(***************************************************************************)
C5_DockerAbsent ==
    \A p \in Invocations :
        available[p] = "no" =>
            /\ Returned(p)
            /\ result[p] = <<DockerNotInstalledText, 0 - 1>>
            /\ created[p] = 0
            /\ tmpdir[p] = NoDir
            /\ client[p] = "none"
            /\ container[p] = "none"
            /\ seen[p] = None
            /\ \A d \in DirNames : fs[d] = NoDirectory

\* the lookup failed for a request with a source, and /run has answered
C5_AnsweredWithoutDocker ==
    \E p \in Invocations :
        /\ available[p] = "no"
        /\ Answered(p)
        /\ request[p] = CodeIndented

(***************************************************************************)
(* C6, as claimed.  For a run that exits with status 0, /run answers       *)
(* exit_code 0 and the trimmed stdout, whatever stdout and stderr hold.    *)
(* This fails for a stdout of several lines that holds "Traceback".        *)
(***************************************************************************)
C6_SuccessOutputIsTrimmedStdout ==
    \A p \in Invocations :
        Answered(p) /\ Completed(p) /\ proc[p].returncode = 0 =>
            /\ response[p].exit_code = 0
            /\ response[p].output = TrimOf(proc[p].stdout)

(***************************************************************************)
(* C6, amended.  For a run that exits with status 0, /run answers          *)
(* exit_code 0 and the trimmed stdout, or only the last line of the        *)
(* trimmed stdout when that holds "Traceback"; stderr has no part in it.   *)
(***************************************************************************)
C6_SuccessOutputIsShortenedStdout ==
    \A p \in Invocations :
        Answered(p) /\ Completed(p) /\ proc[p].returncode = 0 =>
            /\ response[p].exit_code = 0
            /\ response[p].output = Shortened(TrimOf(proc[p].stdout))

\* a successful run whose stdout has two lines, "Traceback" among them, and
\* whose stderr is not empty
C6_SuccessWithTraceback ==
    \E p \in Invocations :
        /\ Answered(p)
        /\ Completed(p)
        /\ proc[p].returncode = 0
        /\ proc[p].stdout = <<"h","i","\n">> \o Traceback
        /\ proc[p].stderr # <<>>
        /\ response[p].output = Traceback

(***************************************************************************)
(* C7.  exit_code is -2 only after a timeout, -1 only after an             *)
(* infrastructure failure, and after a completed run it is the status of   *)
(* the process and is >= 0.                                                *)
(* The code does not do this: returncode is passed on when it is negative. *)
(***************************************************************************)
C7_ReservedExitCodes ==
    \A p \in Invocations :
        result[p] # NoResult =>
            /\ ExitCode(result[p]) = 0 - 2 => branch[p] = "timeout"
            /\ ExitCode(result[p]) = 0 - 1
                  => branch[p] \in {"unavailable", "error"}
            /\ Completed(p) =>
                  /\ ExitCode(result[p]) = proc[p].returncode
                  /\ ExitCode(result[p]) >= 0

(***************************************************************************)
(* C8.  For a run that exits non-zero without a timeout,                   *)
(* run_code_in_docker returns the return code unchanged; the output is the *)
(* fixed memory sentence exactly when the trimmed text stdout, newline,    *)
(* stderr holds "killed" or "out of memory" in any case, and is that       *)
(* trimmed text otherwise.                                                 *)
(***************************************************************************)
C8_FailureClassification ==
    \A p \in Invocations :
        Completed(p) /\ proc[p].returncode # 0 =>
            LET text == TrimOf(proc[p].stdout \o <<"\n">> \o proc[p].stderr)
            IN  /\ ExitCode(result[p]) = proc[p].returncode
                /\ Output(result[p]) = KilledForMemoryText <=> LooksKilled(text)
                /\ ~LooksKilled(text) => Output(result[p]) = text

\* a guest that printed "Killed" itself and exited 1 without a word on stderr
C8_KilledAsProgramOutput ==
    \E p \in Invocations :
        /\ Completed(p)
        /\ proc[p].returncode = 1
        /\ proc[p].stdout = <<"h","i","\n","K","i","l","l","e","d">>
        /\ proc[p].stderr = <<>>
        /\ Output(result[p]) = KilledForMemoryText

(***************************************************************************)
(* C9.  Overlapping invocations never hold the same staging directory;     *)
(* each container reads the source of its own invocation; and while an     *)
(* invocation is between the write and its own cleanup, its directory      *)
(* holds its script, whatever the other invocations remove.                *)
(***************************************************************************)
C9_StagingIsPrivate ==
    /\ \A p, q \in Invocations :
          p # q /\ tmpdir[p] # NoDir => tmpdir[p] # tmpdir[q]
    /\ \A p \in Invocations :
        /\ container[p] # "none" => seen[p] = dedent(request[p])
        /\ pc[p] = "write" => fs[tmpdir[p]] = EmptyDirectory
        /\ pc[p] \in {"launch", "waiting", "cleanup"} /\ exc[p] = "none" =>
              fs[tmpdir[p]] = DirectoryWith(dedent(request[p]))

\* two invocations with different sources run their containers at once
C9_TwoSandboxesAtOnce ==
    \E p, q \in Invocations :
        /\ p # q
        /\ pc[p] = "waiting" /\ container[p] = "running"
        /\ pc[q] = "waiting" /\ container[q] = "running"
        /\ request[p] = CodeHi
        /\ request[q] = CodeIndented
        /\ seen[q] = <<"x"," ","="," ","1","\n",
                       "p","r","i","n","t","(","x",")","\n">>

(***************************************************************************)
(* C10.  clean_message gives the last line of a message that holds         *)
(* "Traceback" and any other message unchanged, and applying it twice is   *)
(* applying it once.                                                       *)
(***************************************************************************)
MessageEndings == { <<>>, <<"\n">>, <<"\r","\n">>, <<"\n","\n">> }
Messages ==
    {t \o e : t \in StdoutTexts, e \in MessageEndings} \cup StderrTexts

ShorteningLaw ==
    \A m \in Messages :
        /\ clean_message(m) = Shortened(m)
        /\ clean_message(clean_message(m)) = clean_message(m)

\* the same of the messages /run sends
ShorteningOfAnswers ==
    \A p \in Invocations :
        Answered(p) =>
            /\ response[p].output = Shortened(Output(result[p]))
            /\ clean_message(response[p].output) = response[p].output

\* a guest that ended with an unhandled error: the trace on stderr and a
\* status above 0
FailedWithTrace(p) ==
    Answered(p) /\ Completed(p) /\ proc[p].returncode > 0
                /\ proc[p].stderr = TraceText

=============================================================================
